---------------------------- MODULE Spec2Model ----------------------------
(***************************************************************************)
(* Model of the salt-updater update orchestrator.                          *)
(*                                                                         *)
(* The orchestrator is the saltUpdater object of cmd/salt-updater: one     *)
(* in-memory SaltState record shared by every goroutine, the state file    *)
(* /etc/cacophony/saltUpdate.json, and the handlers that run salt-call.    *)
(*                                                                         *)
(* Each request (a D-Bus method call or a modem-connected signal) runs in  *)
(* its own goroutine.  A goroutine is modelled by a slot of Calls and a    *)
(* program counter; one action is the straight-line code between two       *)
(* points at which the goroutine blocks, enters the kernel or the runtime  *)
(* (logging, goroutine creation, process execution, file access, channel   *)
(* operations), or reads back shared memory it wrote earlier.  The Go      *)
(* code takes no lock, so the actions of different goroutines interleave   *)
(* freely.                                                                 *)
(***************************************************************************)
EXTENDS Integers, Sequences, FiniteSets, TLC

(***************************************************************************)
(* Bounds of the model.                                                    *)
(***************************************************************************)
\* number of request goroutines that may exist at the same time
MaxCalls == 2
\* requests the environment issues in one run
MaxRequests == 2
\* things that go wrong in one run: a failing or garbled salt-call, a failing
\* file operation, event service or remote check
MaxFaults == 1
\* versions published in the remote manifest in one run, at times 1, 2, ...
MaxPublished == 2
\* marker lines the tool appends to the minion log while one tracker runs
MaxLog == 1
\* the tracker on its own: the largest count an earlier run left in
\* salt-states-count, and the marker lines waiting in the log
MaxPersisted == 4
MaxMarkers == 8
\* event construction on its own: the lines of a captured output
MaxLines == 3
\* the modem listener on its own: signals sent in all, and signals the
\* channel holds
MaxSignals == 4
MaxPending == 2
\* the tracker and the log in detail: the pieces the log holds in all
MaxLogLen == 8

Calls == 1..MaxCalls

\* time.Time{} : the zero time, for which IsZero() holds
ZeroTime == 0
\* time.Now(): the present, later than every time a manifest carries
Now == MaxPublished + 1

(***************************************************************************)
(* Argument lists handed to salt-call.                                     *)
(***************************************************************************)
\* a nil []string
NilArgs == <<>>
PingArgs == <<"test.ping">>
UpdateArgs == <<"state.apply", "--state-output=mixed", "--output-diff">>

(***************************************************************************)
(* Request kinds: the entry points that lead to a salt-call.               *)
(***************************************************************************)
Kinds == {"RunPingSync", "RunPing", "Modem", "RunUpdate", "ForceUpdate"}

\* the args parameter each entry point passes down
ArgsOfPing(k) == PingArgs

ArgsOf(k) == IF k \in {"RunUpdate", "ForceUpdate"} THEN UpdateArgs ELSE PingArgs

\* the updateCall parameter each entry point passes down
UpdateCallOf(k) == k \in {"RunUpdate", "ForceUpdate"}

(***************************************************************************)
(* Captured output of salt-call: a sequence of lines.  A line is its       *)
(* prefix and the numeric tokens the number scanner finds in it.           *)
(***************************************************************************)
Line(p, n) == [prefix |-> p, nums |-> n]

OutGood == << Line("Succeeded:", <<2, 1>>), Line("Failed:", <<0>>),
              Line("Total run time:", <<7>>) >>
OutGarbled == << Line("Succeeded:", <<2>>) >>

\* the output of a run of salt-call: well-formed, or garbled
Output(good) == IF good THEN OutGood ELSE OutGarbled

(***************************************************************************)
(* The SaltState record.                                                   *)
(***************************************************************************)
SaltState(ru, ra, out, ok, ng, la, lu, pp, ps) ==
    [RunningUpdate |-> ru, RunningArgs |-> ra, LastCallOut |-> out,
     LastCallSuccess |-> ok, LastCallNodegroup |-> ng, LastCallArgs |-> la,
     LastUpdate |-> lu, UpdateProgressPercentage |-> pp,
     UpdateProgressStr |-> ps]

\* &SaltState{} : every field at its zero value
EmptySaltState == SaltState(FALSE, NilArgs, <<>>, FALSE, "", NilArgs, ZeroTime, 0, "")

(***************************************************************************)
(* JSON encoding of the record (json.Marshal / json.Unmarshal).  A nil     *)
(* slice is written as null, any other slice as an array; null read into   *)
(* a fresh record leaves the field nil.  A string is written coerced to    *)
(* valid UTF-8: bytes that are not UTF-8 become the replacement rune.      *)
(***************************************************************************)
\* a string of bytes that are not UTF-8, and what json.Marshal writes for it
InvalidBytes == "<0xFF>"
ReplacementRune == "<U+FFFD>"

ToValidUTF8(str) == IF str = InvalidBytes THEN ReplacementRune ELSE str

\* the lines of a text, each coerced
ToValidUTF8Lines(o) == [i \in DOMAIN o |-> [o[i] EXCEPT !.prefix = ToValidUTF8(@)]]

JSONSlice(a) == IF a = NilArgs THEN [json |-> "null", elems |-> <<>>]
                ELSE [json |-> "array", elems |-> [i \in DOMAIN a |-> ToValidUTF8(a[i])]]

SliceOfJSON(j) == IF j.json = "null" THEN NilArgs ELSE j.elems

Marshal(st) ==
    [RunningUpdate |-> st.RunningUpdate,
     RunningArgs |-> JSONSlice(st.RunningArgs),
     LastCallOut |-> ToValidUTF8Lines(st.LastCallOut),
     LastCallSuccess |-> st.LastCallSuccess,
     LastCallNodegroup |-> ToValidUTF8(st.LastCallNodegroup),
     LastCallArgs |-> JSONSlice(st.LastCallArgs),
     LastUpdate |-> st.LastUpdate,
     UpdateProgressPercentage |-> st.UpdateProgressPercentage,
     UpdateProgressStr |-> ToValidUTF8(st.UpdateProgressStr)]

Unmarshal(doc) ==
    SaltState(doc.RunningUpdate, SliceOfJSON(doc.RunningArgs), doc.LastCallOut,
              doc.LastCallSuccess, doc.LastCallNodegroup,
              SliceOfJSON(doc.LastCallArgs), doc.LastUpdate,
              doc.UpdateProgressPercentage, doc.UpdateProgressStr)

(***************************************************************************)
(* The state file: missing, holding a JSON document, or holding bytes      *)
(* that are not a JSON document.                                           *)
(***************************************************************************)
FileOf(st) == [kind |-> "json", doc |-> Marshal(st)]
MissingFile == [kind |-> "missing", doc |-> Marshal(EmptySaltState)]
CorruptFile == [kind |-> "corrupt", doc |-> Marshal(EmptySaltState)]

\* WriteStateFile: the file after the call and the error returned.
\* wok is whether os.WriteFile succeeds.
WriteStateFile(f, st, wok) ==
    IF wok THEN [file |-> FileOf(st), err |-> FALSE]
    ELSE [file |-> f, err |-> TRUE]

\* ReadStateFile: the record returned, the error returned and the file
\* afterwards.  wok is whether the write of a missing file succeeds.
ReadStateFileNoCreate(f, wok) ==
    IF f.kind = "json" THEN [state |-> Unmarshal(f.doc), err |-> FALSE, file |-> f]
    ELSE [state |-> EmptySaltState, err |-> FALSE, file |-> f]

ReadStateFile(f, wok) ==
    IF f.kind = "missing" /\ ~wok
    THEN [state |-> EmptySaltState, err |-> TRUE, file |-> f]
    ELSE LET g == IF f.kind = "missing" THEN FileOf(EmptySaltState) ELSE f
         IN  IF g.kind = "json"
             THEN [state |-> Unmarshal(g.doc), err |-> FALSE, file |-> g]
             ELSE [state |-> EmptySaltState, err |-> FALSE, file |-> g]

(***************************************************************************)
(* Outcome event (makeEventFromState).                                     *)
(***************************************************************************)
ZeroCounts == [succeeded |-> 0, changed |-> 0, failed |-> 0, runTime |-> 0, err |-> FALSE]

\* extractNumbers: the numeric tokens of a line
extractNumbers(line) == line.nums

\* one iteration of the loop over outLines
ParseLineLenient(acc, line) ==
    LET numbers == extractNumbers(line) \o <<0, 0>>
    IN  CASE line.prefix = "Succeeded:"
               -> [acc EXCEPT !.succeeded = numbers[1], !.changed = numbers[2]]
          [] line.prefix = "Failed:" -> [acc EXCEPT !.failed = numbers[1]]
          [] line.prefix = "Total run time:" -> [acc EXCEPT !.runTime = numbers[1]]
          [] OTHER -> acc

ParseLineNoUnrelated(acc, line) ==
    LET numbers == extractNumbers(line) \o <<0, 0>>
    IN  CASE line.prefix = "Succeeded:"
               -> [acc EXCEPT !.succeeded = numbers[1], !.changed = numbers[2],
                              !.err = @ \/ Len(extractNumbers(line)) # 2]
          [] line.prefix = "Failed:"
               -> [acc EXCEPT !.failed = numbers[1],
                              !.err = @ \/ Len(extractNumbers(line)) # 1]
          [] line.prefix = "Total run time:"
               -> [acc EXCEPT !.runTime = numbers[1],
                              !.err = @ \/ Len(extractNumbers(line)) # 1]
          [] OTHER -> [acc EXCEPT !.err = TRUE]

ParseLine(acc, line) ==
    LET numbers == extractNumbers(line)
        a1 == IF line.prefix = "Succeeded:"
              THEN IF Len(numbers) # 2 THEN [acc EXCEPT !.err = TRUE]
                   ELSE [acc EXCEPT !.succeeded = numbers[1], !.changed = numbers[2]]
              ELSE acc
        a2 == IF line.prefix = "Failed:"
              THEN IF Len(numbers) # 1 THEN [a1 EXCEPT !.err = TRUE]
                   ELSE [a1 EXCEPT !.failed = numbers[1]]
              ELSE a1
        a3 == IF line.prefix = "Total run time:"
              THEN IF Len(numbers) # 1 THEN [a2 EXCEPT !.err = TRUE]
                   ELSE [a2 EXCEPT !.runTime = numbers[1]]
              ELSE a2
    IN  IF acc.err THEN acc ELSE a3

RECURSIVE ParseLines(_, _)
ParseLines(acc, lines) ==
    IF lines = <<>> THEN acc
    ELSE ParseLines(ParseLine(acc, Head(lines)), Tail(lines))

\* the event built from a record at wall-clock time now, or an error
makeEventFromStateVerbose(st, now) ==
    LET p == ParseLines(ZeroCounts, st.LastCallOut)
    IN  IF p.err THEN [err |-> TRUE]
        ELSE [err |-> FALSE, Type |-> "salt-update", Timestamp |-> now,
              Details |-> [changed |-> p.changed, failed |-> p.failed,
                           succeeded |-> p.succeeded,
                           nodegroup |-> st.LastCallNodegroup,
                           success |-> st.LastCallSuccess,
                           args |-> st.LastCallArgs,
                           out |-> st.LastCallOut, runTime |-> p.runTime]]

makeEventFromState(st, now) ==
    LET p == ParseLines(ZeroCounts, st.LastCallOut)
        details == [changed |-> p.changed, failed |-> p.failed,
                    succeeded |-> p.succeeded,
                    nodegroup |-> st.LastCallNodegroup,
                    success |-> st.LastCallSuccess,
                    args |-> st.LastCallArgs]
        more == [out |-> st.LastCallOut, runTime |-> p.runTime]
    IN  IF p.err THEN [err |-> TRUE]
        ELSE [err |-> FALSE, Type |-> "salt-update", Timestamp |-> now,
              Details |-> IF p.failed > 0 \/ ~st.LastCallSuccess
                          THEN details @@ more ELSE details]

(***************************************************************************)
(* Remote version check (UpdateExists / UpdateExistsForNodeGroup).         *)
(***************************************************************************)
nodeGroupToBranch ==
    [ng \in {"tc2-dev", "tc2-test", "tc2-prod", "dev-pis", "test-pis", "prod-pis"} |->
        CASE ng \in {"tc2-dev", "dev-pis"} -> "dev"
          [] ng \in {"tc2-test", "test-pis"} -> "test"
          [] OTHER -> "prod"]

\* strings.TrimSuffix(s, "\n") on a string given as a sequence of tokens
TrimSuffixNL(s) ==
    IF Len(s) > 0 /\ s[Len(s)] = "\n" THEN SubSeq(s, 1, Len(s) - 1) ELSE s

CheckResult(a, t, e) == [avail |-> a, time |-> t, err |-> e]

\* t.After(u)
NotBefore(t, u) == t >= u

After(t, u) == t > u

\* nodeGroup: content of the node group file; resp: what the HTTP GET
\* gives; f: the state file, wok: whether a missing state file can be created
UpdateExistsOrNone(nodeGroup, resp, f, wok) ==
    LET ng == TrimSuffixNL(nodeGroup)
        branch == IF Len(ng) = 1 /\ ng[1] \in DOMAIN nodeGroupToBranch
                  THEN nodeGroupToBranch[ng[1]] ELSE "prod"
        details == resp.body.doc
        found == /\ ~resp.err /\ resp.status \in 200..299 /\ resp.body.json
                 /\ branch \in DOMAIN details
                 /\ "tc2" \in DOMAIN details[branch]
                 /\ "commitDate" \in DOMAIN details[branch]["tc2"]
                 /\ details[branch]["tc2"]["commitDate"].layout
    IN  IF ~found THEN CheckResult(FALSE, ZeroTime, "nil")
        ELSE CheckResult(After(details[branch]["tc2"]["commitDate"].time,
                               ReadStateFile(f, wok).state.LastUpdate),
                         details[branch]["tc2"]["commitDate"].time, "nil")

UpdateExistsForNodeGroup(nodeGroup, resp, f, wok) ==
    LET ng == TrimSuffixNL(nodeGroup)
        ok == Len(ng) = 1 /\ ng[1] \in DOMAIN nodeGroupToBranch
        branch == nodeGroupToBranch[ng[1]]
        saltState == ReadStateFile(f, wok).state
        details == resp.body.doc
    IN  IF ~ok THEN CheckResult(FALSE, ZeroTime, "no branch mapping")
        ELSE IF resp.err THEN CheckResult(FALSE, ZeroTime, "http get")
        ELSE IF resp.status < 200 \/ resp.status >= 300
             THEN CheckResult(FALSE, ZeroTime, "bad status")
        ELSE IF ~resp.body.json THEN CheckResult(FALSE, ZeroTime, "unmarshal")
        ELSE IF branch \notin DOMAIN details
             THEN CheckResult(FALSE, ZeroTime, "no branch key")
        ELSE IF "tc2" \notin DOMAIN details[branch]
             THEN CheckResult(FALSE, ZeroTime, "no tc2 key")
        ELSE IF "commitDate" \notin DOMAIN details[branch]["tc2"]
             THEN CheckResult(FALSE, ZeroTime, "no commitDate key")
        ELSE IF ~details[branch]["tc2"]["commitDate"].layout
             THEN CheckResult(FALSE, ZeroTime, "time parse")
        ELSE LET updateTime == details[branch]["tc2"]["commitDate"].time
             IN  CheckResult(After(updateTime, saltState.LastUpdate), updateTime, "nil")

\* rok: whether /etc/cacophony/salt-nodegroup can be read
UpdateExists(rok, nodeGroup, resp, f, wok) ==
    IF ~rok THEN CheckResult(FALSE, ZeroTime, "read nodegroup")
    ELSE UpdateExistsForNodeGroup(nodeGroup, resp, f, wok)

(***************************************************************************)
(* What the environment can hand to the remote check.                      *)
(***************************************************************************)
\* contents of /etc/cacophony/salt-nodegroup, as token sequences
NodeGroupFile(known) == IF known THEN <<"tc2-dev", "\n">> ELSE <<"bogus", "\n">>

\* what saltutil.GetNodegroupFromFile can return
NodeGroups == {"tc2-dev"}

\* a commitDate string: whether it has the layout 2006-01-02T15:04:05Z, and its time
CommitDate(t) == [layout |-> TRUE, time |-> t]

\* a well-formed salt-version-info.json in which every branch was published at t
Manifest(t) == [b \in {"dev", "test", "prod"} |-> [tc2 |-> [commitDate |-> CommitDate(t)]]]

\* a manifest whose branch entries lack the tc2 key
ManifestNoTc2 == [b \in {"dev", "test", "prod"} |-> [pi |-> [commitDate |-> CommitDate(1)]]]

Response(e, st, j, d) == [err |-> e, status |-> st, body |-> [json |-> j, doc |-> d]]

\* the answers http.Get can give while the manifest says t: the manifest,
\* or one of the failures
GoodResponse(t) == Response(FALSE, 200, TRUE, Manifest(t))

BadResponses(t) ==
    { Response(TRUE, 0, FALSE, Manifest(t)),
      Response(FALSE, 404, FALSE, Manifest(t)),
      Response(FALSE, 200, TRUE, ManifestNoTc2) }

Responses(t, good) == IF good THEN {GoodResponse(t)} ELSE BadResponses(t)

\* what a handler keeps of a check: it failed, or it reported a newer
\* version, or it reported none
Outcome(res) == IF res.err # "nil" THEN "error"
                ELSE IF res.avail THEN "newer" ELSE "current"

NoCheck == "none"
NoOut == [out |-> <<>>, ok |-> FALSE]

(***************************************************************************)
(* State.                                                                  *)
(***************************************************************************)
VARIABLES
    state,        \* s.state, the SaltState shared by all goroutines
    file,         \* /etc/cacophony/saltUpdate.json
    pc,           \* where each request goroutine is
    kind,         \* the entry point each request came through
    updateTime,   \* the updateTime parameter of the request
    chk,          \* what UpdateExists returned to the request
    out,          \* out, err of exec.Command(...).CombinedOutput()
    ret,          \* the error runSaltCallSync returned
    reply,        \* the reply sent to the RPC caller
    emitted,      \* events the request handed to eventclient.AddEvent
    trk,          \* where the trackUpdateProgress goroutine of the request is
    stateCount,   \* stateCount of the tracker
    totalStates,  \* totalStates of the tracker
    unread,       \* "Running state [...]" lines appended to /var/log/salt/minion
                  \* behind the tracker's reader and not yet read by it
    statesFile,   \* /etc/cacophony/salt-states-count, -1 when absent
    requests,     \* requests issued so far
    faults,       \* things that went wrong so far
    published,    \* commitDate of the branches in the remote manifest
    client,       \* the last call a client process made into package
                  \* saltrequester, and what it got back
    autoUpdate,   \* AutoUpdate of the salt section of the device config
    modem,        \* modemConnectedListener: where it is, and its channel
    minionLog,    \* /var/log/salt/minion, piece by piece as it is written
    reader        \* the tracker's bufio.Reader: the length the log had when
                  \* the tracker opened it, and the offset read so far

vars == << state, file, pc, kind, updateTime, chk, out, ret, reply, emitted,
           trk, stateCount, totalStates, unread,
           statesFile, requests, faults, published,
           client, autoUpdate, modem, minionLog, reader >>

callVars == << pc, kind, updateTime, chk, out, ret, reply, emitted >>
trkVars == << trk, stateCount, totalStates, unread >>
envVars == << requests, faults, published >>
logVars == << minionLog, reader >>
hostVars == << client, autoUpdate, modem, minionLog, reader >>

\* no client has called yet
NoClient == [op |-> "none"]

\* the listener is about to empty its channel, which holds nothing
ModemIdle == [pc |-> "drain", pending |-> 0, arrived |-> 0, pings |-> 0]

\* no tracker reads the log in detail
NoReader == [opened |-> 0, pos |-> 0]

\* the part of a service's state that has to do with its host
InitHost ==
    /\ client = NoClient
    /\ autoUpdate = TRUE
    /\ modem = ModemIdle
    /\ minionLog = << >>
    /\ reader = NoReader

\* The outcomes of an operation that can go wrong: well, and wrong as long
\* as the run has faults left.  Taking the wrong outcome counts it.
Oks == IF faults < MaxFaults THEN BOOLEAN ELSE {TRUE}
Bad(ok) == IF ok THEN 0 ELSE 1
Fault(ok) == faults' = faults + Bad(ok)

\* runDbus: the record read from a fresh state file, progress cleared
Init ==
    /\ file = FileOf(EmptySaltState)
    /\ state = [ReadStateFile(file, TRUE).state EXCEPT
                   !.UpdateProgressPercentage = 0, !.UpdateProgressStr = ""]
    /\ pc = [c \in Calls |-> "idle"]
    /\ kind = [c \in Calls |-> "RunPing"]
    /\ updateTime = [c \in Calls |-> ZeroTime]
    /\ chk = [c \in Calls |-> NoCheck]
    /\ out = [c \in Calls |-> NoOut]
    /\ ret = [c \in Calls |-> "none"]
    /\ reply = [c \in Calls |-> "none"]
    /\ emitted = [c \in Calls |-> 0]
    /\ trk = [c \in Calls |-> "none"]
    /\ stateCount = [c \in Calls |-> 0]
    /\ totalStates = [c \in Calls |-> 0]
    /\ unread = [c \in Calls |-> 0]
    /\ statesFile = -1
    /\ requests = 0
    /\ faults = 0
    /\ published = 1
    /\ InitHost

(***************************************************************************)
(* Entry points.                                                           *)
(***************************************************************************)
\* the first statement a request of kind k executes
EntryPc(k) ==
    CASE k = "RunPingSync" -> "guard"
      [] k \in {"RunPing", "Modem"} -> "asyncGuard"
      [] k = "RunUpdate" -> "gate"
      [] k = "ForceUpdate" -> "updateGuard"

\* the request goroutine of slot c ends; rep is the reply its caller gets
Finish(c, rep) ==
    /\ pc' = [pc EXCEPT ![c] = "done"]
    /\ reply' = [reply EXCEPT ![c] = rep]
    /\ updateTime' = [updateTime EXCEPT ![c] = ZeroTime]
    /\ chk' = [chk EXCEPT ![c] = NoCheck]
    /\ out' = [out EXCEPT ![c] = NoOut]

\* the updateTime a request starts with: pings carry time.Now(); a
\* conditional update gets its time from the remote check; a forced update
\* makes no check, has no published time and carries the zero time
EntryTime(k) == IF UpdateCallOf(k) THEN ZeroTime ELSE Now

\* a request of kind k starts in the free slot c
Enter(c, k) ==
    /\ pc[c] = "idle"
    /\ trk[c] = "none"
    /\ \A d \in Calls : d < c => ~(pc[d] = "idle" /\ trk[d] = "none")
    /\ requests < MaxRequests
    /\ requests' = requests + 1
    /\ kind' = [kind EXCEPT ![c] = k]
    /\ pc' = [pc EXCEPT ![c] = EntryPc(k)]
    /\ updateTime' = [updateTime EXCEPT ![c] = EntryTime(k)]
    /\ UNCHANGED << state, file, chk, out, ret, reply, emitted, trkVars,
                    statesFile, faults, published >>

\* A request arrives: a D-Bus method call (RunPingSync, RunPing, RunUpdate,
\* ForceUpdate) or a modem-connected signal.
Request(c, k) ==
    /\ Enter(c, k)
    /\ UNCHANGED hostVars

\* the outcome of a finished request has been taken; its slot is free again
Collect(c) ==
    /\ pc[c] = "done"
    /\ pc' = [pc EXCEPT ![c] = "idle"]
    /\ kind' = [kind EXCEPT ![c] = "RunPing"]
    /\ chk' = [chk EXCEPT ![c] = NoCheck]
    /\ ret' = [ret EXCEPT ![c] = "none"]
    /\ reply' = [reply EXCEPT ![c] = "none"]
    /\ emitted' = [emitted EXCEPT ![c] = 0]
    /\ UNCHANGED << state, file, updateTime, out, trkVars, statesFile, envVars >>
    /\ UNCHANGED hostVars

\* the gate of RunUpdate: go on to the tool unless the check succeeded and
\* reported no newer version
GateProceedsAlways(res) == TRUE

GateProceedsOnNewer(res) == res.err = "nil" /\ res.avail

GateProceeds(res) == ~(res.err = "nil" /\ ~res.avail)

\* the progress shown when the gate stops the request
NoUpdateProgress(st) ==
    [st EXCEPT !.UpdateProgressPercentage = 100,
               !.UpdateProgressStr = "No update available"]

\* RunUpdate handler: ask the remote check, then stop or go on to runUpdate
\* with the time the check returned.
RunUpdate_Gate(c) ==
    /\ pc[c] = "gate"
    /\ \E rok \in Oks, known \in Oks, good \in Oks :
        \E resp \in Responses(published, good) :
          LET res == UpdateExists(rok, NodeGroupFile(known), resp, file, TRUE)
          IN  /\ faults + Bad(rok) + Bad(known) + Bad(good) <= MaxFaults
              /\ faults' = faults + Bad(rok) + Bad(known) + Bad(good)
              /\ chk' = [chk EXCEPT ![c] = Outcome(res)]
              /\ IF GateProceeds(res)
                 THEN /\ pc' = [pc EXCEPT ![c] = "updateGuard"]
                      /\ updateTime' = [updateTime EXCEPT ![c] = res.time]
                      /\ UNCHANGED << state, reply, out >>
                 ELSE /\ state' = NoUpdateProgress(state)
                      /\ pc' = [pc EXCEPT ![c] = "done"]
                      /\ reply' = [reply EXCEPT ![c] = "ok"]
                      /\ UNCHANGED << updateTime, out >>
    /\ UNCHANGED << file, kind, ret, emitted, trkVars, statesFile, requests, published >>
    /\ UNCHANGED hostVars

\* runSaltCall, the check before the goroutine is created
runSaltCall(c) ==
    /\ pc[c] = "asyncGuard"
    /\ IF state.RunningUpdate
       THEN Finish(c, IF kind[c] = "Modem" THEN "none" ELSE "ok")
       ELSE /\ pc' = [pc EXCEPT ![c] = "guard"]
            /\ reply' = [reply EXCEPT ![c] = IF kind[c] = "Modem" THEN "none" ELSE "ok"]
            /\ UNCHANGED << updateTime, chk, out >>
    /\ UNCHANGED << state, file, kind, ret, emitted, trkVars,
                    statesFile, envVars >>
    /\ UNCHANGED hostVars

\* runUpdate, the check before the tracker is started
runUpdate_Guard(c) ==
    /\ pc[c] = "updateGuard"
    /\ IF state.RunningUpdate
       THEN Finish(c, "ok")
       ELSE /\ pc' = [pc EXCEPT ![c] = "track"]
            /\ UNCHANGED << reply, updateTime, chk, out >>
    /\ UNCHANGED << state, file, kind, ret, emitted, trkVars,
                    statesFile, envVars >>
    /\ UNCHANGED hostVars

\* runUpdate: make the stop channel and start the tracker goroutine
runUpdate_Track(c) ==
    /\ pc[c] = "track"
    /\ pc' = [pc EXCEPT ![c] = "guard"]
    /\ trk' = [trk EXCEPT ![c] = "init"]
    /\ UNCHANGED << state, file, kind, updateTime, chk, out, ret, reply, emitted,
                    stateCount, totalStates, unread, statesFile, envVars >>
    /\ UNCHANGED hostVars

(***************************************************************************)
(* runSaltCallSync.                                                        *)
(***************************************************************************)
\* "if s.state.RunningUpdate": whether the call is refused
GuardRejectsNever(st) == FALSE

GuardRejects(st) == st.RunningUpdate

\* s.state.RunningUpdate = true; s.state.RunningArgs = args
StartCall(st, args) == [st EXCEPT !.RunningUpdate = TRUE, !.RunningArgs = args]

\* s.state.RunningUpdate = false; s.state.RunningArgs = nil
EndCall(st) == [st EXCEPT !.RunningUpdate = FALSE, !.RunningArgs = NilArgs]

\* s.state.LastCallSuccess = err == nil; s.state.LastCallOut = string(out)
RecordResultAsSuccess(st, o, ok) == [st EXCEPT !.LastCallSuccess = TRUE, !.LastCallOut = o]

RecordResult(st, o, ok) == [st EXCEPT !.LastCallSuccess = ok, !.LastCallOut = o]

\* "if updateCall && s.state.LastCallSuccess && !updateTime.IsZero()":
\* the success flag is read back from the shared record
RecordUpdateTime(st, updateCall, ut) ==
    [st EXCEPT !.LastUpdate = IF updateCall /\ st.LastCallSuccess /\ ut # ZeroTime
                              THEN ut ELSE @]

\* LastCallNodegroup from saltutil.GetNodegroupFromFile, and LastCallArgs
RecordNodegroup(st, rok, nodegroup, args) ==
    [st EXCEPT !.LastCallNodegroup = IF rok THEN nodegroup ELSE "error reading nodegroup",
               !.LastCallArgs = args]

\* the concurrency guard
runSaltCallSync_Guard(c) ==
    /\ pc[c] = "guard"
    /\ IF GuardRejects(state)
       THEN /\ ret' = [ret EXCEPT ![c] = "busy"]
            /\ pc' = [pc EXCEPT ![c] = "ret"]
       ELSE /\ pc' = [pc EXCEPT ![c] = "start"]
            /\ UNCHANGED ret
    /\ UNCHANGED << state, file, kind, updateTime, chk, out, reply, emitted,
                    trkVars, statesFile, envVars >>
    /\ UNCHANGED hostVars

\* mark the call as running and start salt-call
runSaltCallSync_Start(c) ==
    /\ pc[c] = "start"
    /\ state' = StartCall(state, ArgsOf(kind[c]))
    /\ pc' = [pc EXCEPT ![c] = "exec"]
    /\ UNCHANGED << file, kind, updateTime, chk, out, ret, reply, emitted,
                    trkVars, statesFile, envVars >>
    /\ UNCHANGED hostVars

\* salt-call returns its combined output and whether it succeeded
runSaltCallSync_Exec(c) ==
    /\ pc[c] = "exec"
    /\ \E good \in Oks, ok \in Oks :
          /\ faults + Bad(good) + Bad(ok) <= MaxFaults
          /\ faults' = faults + Bad(good) + Bad(ok)
          /\ out' = [out EXCEPT ![c] = [out |-> Output(good), ok |-> ok]]
    /\ state' = EndCall(state)
    /\ pc' = [pc EXCEPT ![c] = "record"]
    /\ UNCHANGED << file, kind, updateTime, chk, ret, reply, emitted,
                    trkVars, statesFile, requests, published >>
    /\ UNCHANGED hostVars

runSaltCallSync_Record(c) ==
    /\ pc[c] = "record"
    /\ state' = RecordResult(state, out[c].out, out[c].ok)
    /\ pc' = [pc EXCEPT ![c] = "updateTime"]
    /\ UNCHANGED << file, kind, updateTime, chk, out, ret, reply, emitted,
                    trkVars, statesFile, envVars >>
    /\ UNCHANGED hostVars

runSaltCallSync_UpdateTime(c) ==
    /\ pc[c] = "updateTime"
    /\ state' = RecordUpdateTime(state, UpdateCallOf(kind[c]), updateTime[c])
    /\ pc' = [pc EXCEPT ![c] = "nodegroup"]
    /\ UNCHANGED << file, kind, updateTime, chk, out, ret, reply, emitted,
                    trkVars, statesFile, envVars >>
    /\ UNCHANGED hostVars

\* "nodegroup, err := ..." takes the place of the err of salt-call
runSaltCallSync_Nodegroup(c) ==
    /\ pc[c] = "nodegroup"
    /\ \E rok \in Oks, ng \in NodeGroups :
          /\ state' = RecordNodegroup(state, rok, ng, ArgsOf(kind[c]))
          /\ Fault(rok)
    /\ out' = [out EXCEPT ![c].ok = FALSE]
    /\ pc' = [pc EXCEPT ![c] = "persist"]
    /\ UNCHANGED << file, kind, updateTime, chk, ret, reply, emitted,
                    trkVars, statesFile, requests, published >>
    /\ UNCHANGED hostVars

\* saltrequester.WriteStateFile(s.state); a failure is only logged
runSaltCallSync_Persist(c) ==
    /\ pc[c] = "persist"
    /\ \E wok \in Oks :
          /\ file' = WriteStateFile(file, state, wok).file
          /\ Fault(wok)
    /\ pc' = [pc EXCEPT ![c] = "event"]
    /\ UNCHANGED << state, kind, updateTime, chk, out, ret, reply, emitted,
                    trkVars, statesFile, requests, published >>
    /\ UNCHANGED hostVars

\* for an update call, build the event and hand it to eventclient.AddEvent
runSaltCallSync_Event(c) ==
    /\ pc[c] = "event"
    /\ IF UpdateCallOf(kind[c])
       THEN LET event == makeEventFromState(state, Now)
            IN  IF event.err
                THEN /\ ret' = [ret EXCEPT ![c] = "parse"]
                     /\ UNCHANGED << emitted, faults >>
                ELSE /\ \E aok \in Oks :
                           /\ ret' = [ret EXCEPT ![c] = IF aok THEN "nil" ELSE "addevent"]
                           /\ Fault(aok)
                     /\ emitted' = [emitted EXCEPT ![c] = @ + 1]
       ELSE /\ ret' = [ret EXCEPT ![c] = "nil"]
            /\ UNCHANGED << emitted, faults >>
    /\ out' = [out EXCEPT ![c] = NoOut]
    /\ pc' = [pc EXCEPT ![c] = "ret"]
    /\ UNCHANGED << state, file, kind, updateTime, chk, reply,
                    trkVars, statesFile, requests, published >>
    /\ UNCHANGED hostVars

(***************************************************************************)
(* What happens with the result of runSaltCallSync.                        *)
(***************************************************************************)
\* service.RunPingSync: the state pointer is marshalled whatever error
\* runSaltCallSync returned; the pointer is nil exactly when there is one
RunPingSyncReply(e) == IF e = "nil" THEN "state" ELSE "null"

\* runUpdate after runSaltCallSync returned
FinishedProgress(st, e) ==
    IF e # "nil" THEN st
    ELSE [st EXCEPT !.UpdateProgressPercentage = 100,
                    !.UpdateProgressStr = "Finished update"]

\* the synchronous ping replies; a goroutine made by runSaltCall just ends
Return_Ping(c) ==
    /\ pc[c] = "ret"
    /\ ~UpdateCallOf(kind[c])
    /\ Finish(c, IF kind[c] = "RunPingSync" THEN RunPingSyncReply(ret[c]) ELSE reply[c])
    /\ UNCHANGED << state, file, kind, ret, emitted, trkVars,
                    statesFile, envVars >>
    /\ UNCHANGED hostVars

runUpdate_Return(c) ==
    /\ pc[c] = "ret"
    /\ UpdateCallOf(kind[c])
    /\ state' = FinishedProgress(state, ret[c])
    /\ pc' = [pc EXCEPT ![c] = "stop"]
    /\ UNCHANGED << file, kind, updateTime, chk, out, ret, reply, emitted,
                    trkVars, statesFile, envVars >>
    /\ UNCHANGED hostVars

\* the deferred "stopTrackingUpdate <- true": the channel is unbuffered, so
\* the send completes only when the tracker receives in its select
runUpdate_Stop(c) ==
    /\ pc[c] = "stop"
    /\ trk[c] = "loop"
    /\ trk' = [trk EXCEPT ![c] = "final"]
    /\ Finish(c, "ok")
    /\ UNCHANGED << state, file, kind, ret, emitted, stateCount,
                    totalStates, unread, statesFile, envVars >>
    /\ UNCHANGED hostVars

(***************************************************************************)
(* trackUpdateProgress.                                                    *)
(***************************************************************************)
\* totalStates from the content of salt-states-count (-1: absent or not a number)
TotalStates(f) == (IF f < 0 THEN 100 ELSE f) + 5

\* progress after the n-th matching line, of total expected
Progress(st, n, total, name) ==
    [st EXCEPT !.UpdateProgressPercentage = (100 * n) \div total,
               !.UpdateProgressStr = name]

trackUpdateProgress_Init(c) ==
    /\ trk[c] = "init"
    /\ state' = [state EXCEPT !.UpdateProgressPercentage = 0,
                              !.UpdateProgressStr = "Initializing update..."]
    /\ trk' = [trk EXCEPT ![c] = "open"]
    /\ UNCHANGED << file, callVars, stateCount, totalStates, unread,
                    statesFile, envVars >>
    /\ UNCHANGED hostVars

\* open the log and seek to its end, read the expected total; when the log
\* cannot be opened the goroutine returns
trackUpdateProgress_Open(c) ==
    /\ trk[c] = "open"
    /\ \E ook \in Oks :
          /\ Fault(ook)
          /\ IF ook
             THEN /\ trk' = [trk EXCEPT ![c] = "loop"]
                  /\ totalStates' = [totalStates EXCEPT ![c] = TotalStates(statesFile)]
                  /\ stateCount' = [stateCount EXCEPT ![c] = 0]
                  /\ unread' = [unread EXCEPT ![c] = 0]
             ELSE /\ trk' = [trk EXCEPT ![c] = "exited"]
                  /\ UNCHANGED << totalStates, stateCount, unread >>
    /\ UNCHANGED << state, file, callVars, statesFile, requests, published >>
    /\ UNCHANGED hostVars

\* one pass of the loop in which ReadString returns a matching line
trackUpdateProgress_Read(c) ==
    /\ trk[c] = "loop"
    /\ unread[c] > 0
    /\ unread' = [unread EXCEPT ![c] = @ - 1]
    /\ stateCount' = [stateCount EXCEPT ![c] = @ + 1]
    /\ state' = Progress(state, stateCount[c] + 1, totalStates[c], "pkg-install")
    /\ UNCHANGED << file, callVars, trk, totalStates, statesFile, envVars >>
    /\ UNCHANGED hostVars

\* after the stop signal: write the count to salt-states-count and return
trackUpdateProgress_Stop(c) ==
    /\ trk[c] = "final"
    /\ \E wok \in Oks :
          /\ statesFile' = IF wok THEN stateCount[c] ELSE statesFile
          /\ Fault(wok)
    /\ trk' = [trk EXCEPT ![c] = "none"]
    /\ stateCount' = [stateCount EXCEPT ![c] = 0]
    /\ totalStates' = [totalStates EXCEPT ![c] = 0]
    /\ unread' = [unread EXCEPT ![c] = 0]
    /\ UNCHANGED << state, file, callVars, requests, published >>
    /\ UNCHANGED hostVars

(***************************************************************************)
(* Environment.                                                            *)
(***************************************************************************)
\* a running state.apply appends a "Running state [...]" line to the log;
\* every tracker whose reader is open will find it
ToolLog(c) ==
    /\ pc[c] = "exec"
    /\ UpdateCallOf(kind[c])
    /\ \E d \in Calls : trk[d] = "loop"
    /\ \A d \in Calls : trk[d] = "loop" => stateCount[d] + unread[d] < MaxLog
    /\ unread' = [d \in Calls |-> IF trk[d] = "loop" THEN unread[d] + 1 ELSE unread[d]]
    /\ UNCHANGED << state, file, callVars, trk, stateCount, totalStates,
                    statesFile, envVars >>
    /\ UNCHANGED hostVars

\* a new version is published: the manifest carries a later time
Publish ==
    /\ published < MaxPublished
    /\ published' = published + 1
    /\ UNCHANGED << state, file, callVars, trkVars, statesFile, requests, faults >>
    /\ UNCHANGED hostVars

(***************************************************************************)
(* Specification.                                                          *)
(***************************************************************************)
Next ==
    \/ \E c \in Calls, k \in Kinds : Request(c, k)
    \/ \E c \in Calls : Collect(c)
    \/ \E c \in Calls : RunUpdate_Gate(c)
    \/ \E c \in Calls : runSaltCall(c)
    \/ \E c \in Calls : runUpdate_Guard(c)
    \/ \E c \in Calls : runUpdate_Track(c)
    \/ \E c \in Calls : runSaltCallSync_Guard(c)
    \/ \E c \in Calls : runSaltCallSync_Start(c)
    \/ \E c \in Calls : runSaltCallSync_Exec(c)
    \/ \E c \in Calls : runSaltCallSync_Record(c)
    \/ \E c \in Calls : runSaltCallSync_UpdateTime(c)
    \/ \E c \in Calls : runSaltCallSync_Nodegroup(c)
    \/ \E c \in Calls : runSaltCallSync_Persist(c)
    \/ \E c \in Calls : runSaltCallSync_Event(c)
    \/ \E c \in Calls : Return_Ping(c)
    \/ \E c \in Calls : runUpdate_Return(c)
    \/ \E c \in Calls : runUpdate_Stop(c)
    \/ \E c \in Calls : trackUpdateProgress_Init(c)
    \/ \E c \in Calls : trackUpdateProgress_Open(c)
    \/ \E c \in Calls : trackUpdateProgress_Read(c)
    \/ \E c \in Calls : trackUpdateProgress_Stop(c)
    \/ \E c \in Calls : ToolLog(c)
    \/ Publish

Spec == Init /\ [][Next]_vars

(***************************************************************************)
(* The tracker of one update on its own: a forced update is running        *)
(* salt-call, its tracker has opened the log and read the total an         *)
(* earlier run left behind (or found none), and some marker lines are      *)
(* waiting in the log.                                                     *)
(***************************************************************************)
InitTracker ==
    /\ file = FileOf(EmptySaltState)
    /\ state = [StartCall(EmptySaltState, UpdateArgs) EXCEPT
                   !.UpdateProgressStr = "Initializing update..."]
    /\ pc = [c \in Calls |-> IF c = 1 THEN "exec" ELSE "idle"]
    /\ kind = [c \in Calls |-> IF c = 1 THEN "ForceUpdate" ELSE "RunPing"]
    /\ updateTime = [c \in Calls |-> ZeroTime]
    /\ chk = [c \in Calls |-> NoCheck]
    /\ out = [c \in Calls |-> NoOut]
    /\ ret = [c \in Calls |-> "none"]
    /\ reply = [c \in Calls |-> "none"]
    /\ emitted = [c \in Calls |-> 0]
    /\ trk = [c \in Calls |-> IF c = 1 THEN "loop" ELSE "none"]
    /\ stateCount = [c \in Calls |-> 0]
    /\ statesFile \in -1..MaxPersisted
    /\ totalStates = [c \in Calls |-> IF c = 1 THEN TotalStates(statesFile) ELSE 0]
    /\ \E n \in 0..MaxMarkers : unread = [c \in Calls |-> IF c = 1 THEN n ELSE 0]
    /\ requests = 1
    /\ faults = 0
    /\ published = 1
    /\ InitHost

NextTracker == \E c \in Calls : trackUpdateProgress_Read(c)

SpecTracker == InitTracker /\ [][NextTracker]_vars

(***************************************************************************)
(* The tracker and the log in detail.  The log is a sequence of pieces as  *)
(* they are written: "A" is the text up to and including "Running state    *)
(* [", a state name stands for the name and the closing bracket, "x" is    *)
(* any other text and "\n" ends a line.  The regular expression matches a  *)
(* text in which "A" is directly followed by a state name.                 *)
(***************************************************************************)
StateNames == {"pkg-install", "svc-restart"}

LastPiece(log) == IF log = << >> THEN "\n" ELSE log[Len(log)]

\* the pieces of the line under way
CurrentLine(log) ==
    LET ends == {i \in 1..Len(log) : log[i] = "\n"}
        from == IF ends = {} THEN 0 ELSE CHOOSE i \in ends : \A j \in ends : j <= i
    IN  SubSeq(log, from + 1, Len(log))

\* salt-call logs one message per line
CanAppend(log, t) ==
    CASE t = "A" -> LastPiece(log) # "A" /\ \A i \in DOMAIN CurrentLine(log) : CurrentLine(log)[i] # "A"
      [] t \in StateNames -> LastPiece(log) = "A"
      [] t = "x" -> LastPiece(log) \notin {"A", "x"}
      [] OTHER -> LastPiece(log) \notin {"A", "\n"}

\* what the log can hold when a tracker opens it
Histories == { << >>,
               << "x" >>,
               << "A" >>,
               << "x", "\n" >>,
               << "A", "pkg-install", "\n" >> }

\* file.Seek(0, io.SeekEnd): the offset reading starts at
SeekStart(log) == 0

SeekEnd(log) == Len(log)

\* reader.ReadString('\n') at offset pos: the text up to and including the
\* next line end; without one, the text there is together with io.EOF
ReadString(log, pos) ==
    LET ends == {i \in pos + 1..Len(log) : log[i] = "\n"}
    IN  IF ends = {}
        THEN [line |-> SubSeq(log, pos + 1, Len(log)), err |-> TRUE, pos |-> Len(log)]
        ELSE LET e == CHOOSE i \in ends : \A j \in ends : i <= j
             IN  [line |-> SubSeq(log, pos + 1, e), err |-> FALSE, pos |-> e]

\* the places of line at which stateRe matches
Matches(line) == {i \in 1..Len(line) - 1 : line[i] = "A" /\ line[i + 1] \in StateNames}

MatchString(line) == Matches(line) # {}

\* matches[1] of stateRe.FindStringSubmatch(line)
FindStringSubmatch(line) ==
    line[(CHOOSE i \in Matches(line) : \A j \in Matches(line) : i <= j) + 1]

\* "if err != nil { time.Sleep(100 * time.Millisecond); continue }"
AfterReadErrorReturn == "exited"

AfterReadError == "loop"

\* salt-call writes a piece of a log line
minionLog_Append(t) ==
    /\ \E c \in Calls : pc[c] = "exec" /\ UpdateCallOf(kind[c])
    /\ Len(minionLog) < MaxLogLen
    /\ CanAppend(minionLog, t)
    /\ minionLog' = Append(minionLog, t)
    /\ UNCHANGED << state, file, callVars, trkVars, statesFile, envVars,
                    client, autoUpdate, modem, reader >>

\* one pass of the loop that finds no stop signal: ReadString, and the
\* line processed when it came without error
trackUpdateProgress_ReadString(c) ==
    /\ trk[c] = "loop"
    /\ LET r == ReadString(minionLog, reader.pos)
       IN  /\ reader' = [reader EXCEPT !.pos = r.pos]
           /\ trk' = [trk EXCEPT ![c] = IF r.err THEN AfterReadError ELSE "loop"]
           /\ IF ~r.err /\ MatchString(r.line)
              THEN /\ stateCount' = [stateCount EXCEPT ![c] = @ + 1]
                   /\ state' = Progress(state, stateCount[c] + 1, totalStates[c],
                                        FindStringSubmatch(r.line))
              ELSE UNCHANGED << stateCount, state >>
    /\ UNCHANGED << file, callVars, totalStates, unread, statesFile, envVars,
                    client, autoUpdate, modem, minionLog >>

\* a forced update is running salt-call; its tracker has opened the log,
\* which held some history, and read the total
InitLog ==
    /\ file = FileOf(EmptySaltState)
    /\ state = [StartCall(EmptySaltState, UpdateArgs) EXCEPT
                   !.UpdateProgressStr = "Initializing update..."]
    /\ pc = [c \in Calls |-> IF c = 1 THEN "exec" ELSE "idle"]
    /\ kind = [c \in Calls |-> IF c = 1 THEN "ForceUpdate" ELSE "RunPing"]
    /\ updateTime = [c \in Calls |-> ZeroTime]
    /\ chk = [c \in Calls |-> NoCheck]
    /\ out = [c \in Calls |-> NoOut]
    /\ ret = [c \in Calls |-> "none"]
    /\ reply = [c \in Calls |-> "none"]
    /\ emitted = [c \in Calls |-> 0]
    /\ trk = [c \in Calls |-> IF c = 1 THEN "loop" ELSE "none"]
    /\ stateCount = [c \in Calls |-> 0]
    /\ statesFile \in -1..1
    /\ totalStates = [c \in Calls |-> IF c = 1 THEN TotalStates(statesFile) ELSE 0]
    /\ unread = [c \in Calls |-> 0]
    /\ requests = 1
    /\ faults = MaxFaults
    /\ published = 1
    /\ client = NoClient
    /\ autoUpdate = TRUE
    /\ modem = ModemIdle
    /\ minionLog \in Histories
    /\ reader = [opened |-> Len(minionLog), pos |-> SeekEnd(minionLog)]

NextLog ==
    \/ \E t \in StateNames \cup {"A", "x", "\n"} : minionLog_Append(t)
    \/ \E c \in Calls : trackUpdateProgress_ReadString(c)
    \/ \E c \in Calls : runSaltCallSync_Exec(c)
    \/ \E c \in Calls : runSaltCallSync_Record(c)
    \/ \E c \in Calls : runSaltCallSync_UpdateTime(c)
    \/ \E c \in Calls : runSaltCallSync_Nodegroup(c)
    \/ \E c \in Calls : runSaltCallSync_Persist(c)
    \/ \E c \in Calls : runSaltCallSync_Event(c)
    \/ \E c \in Calls : runUpdate_Return(c)
    \/ \E c \in Calls : runUpdate_Stop(c)
    \/ \E c \in Calls : trackUpdateProgress_Stop(c)

SpecLog == InitLog /\ [][NextLog]_vars

\* the tracker goroutine is scheduled again and again: a pass of its loop
\* that finds the sender waiting receives, and after the receive it writes
\* the count and returns
SpecLogFair ==
    /\ SpecLog
    /\ \A c \in Calls : WF_vars(runUpdate_Stop(c))
    /\ \A c \in Calls : WF_vars(trackUpdateProgress_Stop(c))

(***************************************************************************)
(* Event construction on its own: an update call has run salt-call,        *)
(* recorded and written its result and is about to build the event; the    *)
(* captured output is any text of up to MaxLines lines.                    *)
(***************************************************************************)
\* lines salt-call can print: summary lines, well-formed or not, and a
\* line that is no summary line
EventLines ==
    { Line("Succeeded:", <<2, 1>>), Line("Succeeded:", <<3, 0>>),
      Line("Succeeded:", <<2>>),
      Line("Failed:", <<0>>), Line("Failed:", <<1>>), Line("Failed:", <<>>),
      Line("Total run time:", <<7>>), Line("Total run time:", <<7, 2>>),
      Line("Name:", <<15, 14>>) }

Outputs == UNION { [1..n -> EventLines] : n \in 0..MaxLines }

InitEvent ==
    /\ \E o \in Outputs, ok \in BOOLEAN, ng \in NodeGroups :
          /\ state = RecordNodegroup(RecordResult(EmptySaltState, o, ok),
                                     TRUE, ng, UpdateArgs)
          /\ out = [c \in Calls |-> IF c = 1 THEN [out |-> o, ok |-> FALSE] ELSE NoOut]
    /\ file = FileOf(state)
    /\ pc = [c \in Calls |-> IF c = 1 THEN "event" ELSE "idle"]
    /\ kind = [c \in Calls |-> IF c = 1 THEN "ForceUpdate" ELSE "RunPing"]
    /\ updateTime = [c \in Calls |-> ZeroTime]
    /\ chk = [c \in Calls |-> NoCheck]
    /\ ret = [c \in Calls |-> "none"]
    /\ reply = [c \in Calls |-> "none"]
    /\ emitted = [c \in Calls |-> 0]
    /\ trk = [c \in Calls |-> IF c = 1 THEN "loop" ELSE "none"]
    /\ stateCount = [c \in Calls |-> 0]
    /\ statesFile = -1
    /\ totalStates = [c \in Calls |-> IF c = 1 THEN TotalStates(statesFile) ELSE 0]
    /\ unread = [c \in Calls |-> 0]
    /\ requests = 1
    /\ faults = 0
    /\ published = 1
    /\ InitHost

NextEvent == \E c \in Calls : runSaltCallSync_Event(c)

SpecEvent == InitEvent /\ [][NextEvent]_vars

(***************************************************************************)
(* Clients of package saltrequester: a process of the device calls the     *)
(* package's functions while the service is idle or is running an update.  *)
(***************************************************************************)
Branches == {"dev", "test", "prod"}

\* a manifest in which branch b was published at times[b]
ManifestOf(times) == [b \in Branches |-> [tc2 |-> [commitDate |-> CommitDate(times[b])]]]

\* manifests that lack the dev branch, the commitDate key, or whose
\* commitDate is not in the layout
ManifestNoDev == [b \in {"test", "prod"} |-> [tc2 |-> [commitDate |-> CommitDate(1)]]]
ManifestNoCommitDate == [b \in Branches |-> [tc2 |-> [sha |-> CommitDate(1)]]]
ManifestBadDate == [b \in Branches |-> [tc2 |-> [commitDate |-> [layout |-> FALSE, time |-> 1]]]]

\* what http.Get and io.ReadAll can give
ClientResponses ==
    { Response(FALSE, 200, TRUE, ManifestOf(f)) : f \in [Branches -> 0..MaxPublished] }
      \cup BadResponses(1)
      \cup { Response(FALSE, 299, TRUE, Manifest(1)), Response(FALSE, 199, TRUE, Manifest(1)),
             Response(FALSE, 300, TRUE, Manifest(1)), Response(FALSE, 200, FALSE, Manifest(1)),
             Response(FALSE, 200, TRUE, ManifestNoDev),
             Response(FALSE, 200, TRUE, ManifestNoCommitDate),
             Response(FALSE, 200, TRUE, ManifestBadDate) }

\* node group strings a caller can pass
ClientNodeGroups ==
    { << ng, "\n" >> : ng \in DOMAIN nodeGroupToBranch }
      \cup { << "tc2-dev" >>, << "bogus", "\n" >>, << >>, << "tc2-dev", "\n", "\n" >> }

\* records a service can have written to the state file
ClientRecords ==
    { [EmptySaltState EXCEPT !.LastUpdate = t] : t \in 0..MaxPublished }
      \cup { RecordNodegroup(RecordUpdateTime(RecordResult(EmptySaltState, o, TRUE), TRUE, 1),
                             TRUE, "tc2-dev", UpdateArgs) :
               o \in { OutGood, << Line("Name:", <<15, 14>>) >> \o OutGood,
                       << Line(InvalidBytes, << >>) >> \o OutGood } }

ClientFiles == { MissingFile, CorruptFile } \cup { FileOf(r) : r \in ClientRecords }

InitClient ==
    /\ file \in ClientFiles
    /\ \E running \in BOOLEAN :
          /\ state = IF running
                     THEN [StartCall(EmptySaltState, UpdateArgs) EXCEPT
                              !.UpdateProgressStr = "Initializing update..."]
                     ELSE EmptySaltState
          /\ pc = [c \in Calls |-> IF running /\ c = 1 THEN "exec" ELSE "idle"]
          /\ kind = [c \in Calls |-> IF running /\ c = 1 THEN "ForceUpdate" ELSE "RunPing"]
          /\ trk = [c \in Calls |-> IF running /\ c = 1 THEN "loop" ELSE "none"]
          /\ requests = IF running THEN 1 ELSE 0
    /\ updateTime = [c \in Calls |-> ZeroTime]
    /\ chk = [c \in Calls |-> NoCheck]
    /\ out = [c \in Calls |-> NoOut]
    /\ ret = [c \in Calls |-> "none"]
    /\ reply = [c \in Calls |-> "none"]
    /\ emitted = [c \in Calls |-> 0]
    /\ stateCount = [c \in Calls |-> 0]
    /\ statesFile = -1
    /\ totalStates = [c \in Calls |-> IF trk[c] = "loop" THEN TotalStates(statesFile) ELSE 0]
    /\ unread = [c \in Calls |-> 0]
    /\ faults = 0
    /\ published = 1
    /\ InitHost

\* a client calls UpdateExistsForNodeGroup(nodeGroup)
client_UpdateExistsForNodeGroup ==
    /\ \E nodeGroup \in ClientNodeGroups, resp \in ClientResponses,
          wok \in IF file.kind = "missing" THEN BOOLEAN ELSE {TRUE} :
          LET res == UpdateExistsForNodeGroup(nodeGroup, resp, file, wok)
          IN  /\ client' = [op |-> "UpdateExistsForNodeGroup", nodeGroup |-> nodeGroup,
                            resp |-> resp, res |-> res]
              /\ file' = IF res.err = "no branch mapping" THEN file
                         ELSE ReadStateFile(file, wok).file
    /\ UNCHANGED << state, callVars, trkVars, statesFile, envVars, autoUpdate, modem, logVars >>

\* a client calls WriteStateFile(saltState)
client_WriteStateFile ==
    /\ \E saltState \in ClientRecords, wok \in BOOLEAN :
          LET w == WriteStateFile(file, saltState, wok)
          IN  /\ client' = [op |-> "WriteStateFile", saltState |-> saltState, err |-> w.err]
              /\ file' = w.file
    /\ UNCHANGED << state, callVars, trkVars, statesFile, envVars, autoUpdate, modem, logVars >>

\* a client calls ReadStateFile()
client_ReadStateFile ==
    /\ \E wok \in IF file.kind = "missing" THEN BOOLEAN ELSE {TRUE} :
          LET r == ReadStateFile(file, wok)
          IN  /\ client' = [op |-> "ReadStateFile", state |-> r.state, err |-> r.err]
              /\ file' = r.file
    /\ UNCHANGED << state, callVars, trkVars, statesFile, envVars, autoUpdate, modem, logVars >>

\* the service's IsRunning method: the flag of the shared record
service_IsRunning(st) == st.RunningUpdate

\* the package's IsRunning: answered is whether the method call got its
\* reply, flag the body of the reply, stored whether Store() with no
\* destination accepts a body of one value
IsRunning(answered, flag, stored) ==
    IF ~answered \/ ~stored THEN [running |-> FALSE, err |-> TRUE]
    ELSE [running |-> FALSE, err |-> FALSE]

\* a client calls IsRunning()
client_IsRunning ==
    /\ \E answered \in BOOLEAN, stored \in BOOLEAN :
          LET r == IsRunning(answered, service_IsRunning(state), stored)
          IN  client' = [op |-> "IsRunning", answered |-> answered,
                         running |-> r.running, err |-> r.err]
    /\ UNCHANGED << state, file, callVars, trkVars, statesFile, envVars, autoUpdate, modem, logVars >>

\* saltUpdater.CheckIfUpdateAvailable, from what UpdateExists returned
CheckIfUpdateAvailable(res) == res.err = "nil"

\* a client calls the service's CheckIfUpdateAvailable method
client_CheckIfUpdateAvailable ==
    /\ \E rok \in BOOLEAN, known \in BOOLEAN, resp \in ClientResponses,
          wok \in IF file.kind = "missing" THEN BOOLEAN ELSE {TRUE} :
          LET res == UpdateExists(rok, NodeGroupFile(known), resp, file, wok)
          IN  /\ client' = [op |-> "CheckIfUpdateAvailable", res |-> res,
                            available |-> CheckIfUpdateAvailable(res)]
              /\ file' = IF rok /\ known THEN ReadStateFile(file, wok).file ELSE file
    /\ UNCHANGED << state, callVars, trkVars, statesFile, envVars, autoUpdate, modem, logVars >>

NextClient ==
    \/ client_UpdateExistsForNodeGroup
    \/ client_CheckIfUpdateAvailable
    \/ client_WriteStateFile
    \/ client_ReadStateFile
    \/ client_IsRunning

SpecClient == InitClient /\ [][NextClient]_vars

(***************************************************************************)
(* The service process on its own: runMain starts the D-Bus service and    *)
(* then asks it for an update, once at start and again after every sleep;  *)
(* the enable-auto-update and disable-auto-update commands set the toggle. *)
(***************************************************************************)
\* setAutoUpdate(enable); sok is whether config.Set succeeds
setAutoUpdate(enable, sok) ==
    /\ autoUpdate' = IF sok THEN enable ELSE autoUpdate
    /\ UNCHANGED << state, file, callVars, trkVars, statesFile, envVars, client, modem, logVars >>

\* the loop of runMain: saltrequester.RunUpdate()
runMain_RunUpdate(c) == Request(c, "RunUpdate")

NextMain ==
    \/ \E enable \in BOOLEAN, sok \in BOOLEAN : setAutoUpdate(enable, sok)
    \/ \E c \in Calls : runMain_RunUpdate(c)
    \/ \E c \in Calls : Collect(c)
    \/ \E c \in Calls : RunUpdate_Gate(c)
    \/ \E c \in Calls : runUpdate_Guard(c)
    \/ \E c \in Calls : runUpdate_Track(c)
    \/ \E c \in Calls : runSaltCallSync_Guard(c)
    \/ \E c \in Calls : runSaltCallSync_Start(c)
    \/ \E c \in Calls : runSaltCallSync_Exec(c)
    \/ \E c \in Calls : runSaltCallSync_Record(c)
    \/ \E c \in Calls : runSaltCallSync_UpdateTime(c)
    \/ \E c \in Calls : runSaltCallSync_Nodegroup(c)
    \/ \E c \in Calls : runSaltCallSync_Persist(c)
    \/ \E c \in Calls : runSaltCallSync_Event(c)
    \/ \E c \in Calls : runUpdate_Return(c)
    \/ \E c \in Calls : runUpdate_Stop(c)
    \/ \E c \in Calls : trackUpdateProgress_Init(c)
    \/ \E c \in Calls : trackUpdateProgress_Open(c)
    \/ \E c \in Calls : trackUpdateProgress_Read(c)
    \/ \E c \in Calls : trackUpdateProgress_Stop(c)
    \/ \E c \in Calls : ToolLog(c)

SpecMain == Init /\ [][NextMain]_vars

(***************************************************************************)
(* The modem listener: modemd sends a signal on the channel whenever the   *)
(* modem connects; the listener empties the channel, waits for a signal    *)
(* and pings.  arrived counts the signals sent so far; pings the ping      *)
(* requests made since the listener last woke up.                          *)
(***************************************************************************)
\* one pass of the loop of emptyChannel: take a signal, or return
emptyChannelOnce(m) ==
    [m EXCEPT !.pending = IF @ > 0 THEN @ - 1 ELSE 0, !.pc = "wait"]

emptyChannel(m) ==
    IF m.pending > 0 THEN [m EXCEPT !.pending = @ - 1]
    ELSE [m EXCEPT !.pc = "wait"]

\* the modem connects: a signal is put on the channel
Signal ==
    /\ modem.arrived < MaxSignals
    /\ modem.pending < MaxPending
    /\ modem' = [modem EXCEPT !.pending = @ + 1, !.arrived = @ + 1]
    /\ UNCHANGED << state, file, callVars, trkVars, statesFile, envVars, client, autoUpdate, logVars >>

modemConnectedListener_Empty ==
    /\ modem.pc = "drain"
    /\ modem' = emptyChannel(modem)
    /\ UNCHANGED << state, file, callVars, trkVars, statesFile, envVars, client, autoUpdate, logVars >>

\* "<-modemConnectSignal", then the log line
modemConnectedListener_Receive ==
    /\ modem.pc = "wait"
    /\ modem.pending > 0
    /\ modem' = [modem EXCEPT !.pending = @ - 1, !.pc = "ping", !.pings = 0]
    /\ UNCHANGED << state, file, callVars, trkVars, statesFile, envVars, client, autoUpdate, logVars >>

\* s.runSaltCall([]string{"test.ping"}, false, time.Now()) is entered
modemConnectedListener_Ping(c) ==
    /\ modem.pc = "ping"
    /\ Enter(c, "Modem")
    /\ modem' = [modem EXCEPT !.pc = "call", !.pings = @ + 1]
    /\ UNCHANGED << client, autoUpdate, logVars >>

\* runSaltCall has returned to the listener
modemConnectedListener_Loop ==
    /\ modem.pc = "call"
    /\ \A c \in Calls : pc[c] # "asyncGuard"
    /\ modem' = [modem EXCEPT !.pc = "drain"]
    /\ UNCHANGED << state, file, callVars, trkVars, statesFile, envVars, client, autoUpdate, logVars >>

NextModem ==
    \/ Signal
    \/ modemConnectedListener_Empty
    \/ modemConnectedListener_Receive
    \/ \E c \in Calls : modemConnectedListener_Ping(c)
    \/ modemConnectedListener_Loop
    \/ \E c \in Calls : runSaltCall(c)
    \/ \E c \in Calls : runSaltCallSync_Guard(c)
    \/ \E c \in Calls : runSaltCallSync_Start(c)
    \/ \E c \in Calls : runSaltCallSync_Exec(c)
    \/ \E c \in Calls : runSaltCallSync_Record(c)
    \/ \E c \in Calls : runSaltCallSync_UpdateTime(c)
    \/ \E c \in Calls : runSaltCallSync_Nodegroup(c)
    \/ \E c \in Calls : runSaltCallSync_Persist(c)
    \/ \E c \in Calls : runSaltCallSync_Event(c)
    \/ \E c \in Calls : Return_Ping(c)
    \/ \E c \in Calls : Collect(c)

SpecModem == Init /\ [][NextModem]_vars

(***************************************************************************)
(* Properties.                                                             *)
(***************************************************************************)
\* the request of slot c takes a step of its own goroutine
Steps(c) == pc'[c] # pc[c]

\* the slots whose salt-call has been started and has not returned
InFlight == {c \in Calls : pc[c] = "exec"}

\* C1: in every interleaving at most one salt-call invocation is in flight
\* between "running set to true" and "tool invocation returned".
C1_AtMostOneInFlight == Cardinality(InFlight) <= 1

\* the fields of the record a refused call must leave alone
CallFields(st) == << st.RunningArgs, st.LastCallOut, st.LastCallSuccess,
                     st.LastCallArgs, st.LastUpdate >>

\* C2: a call whose concurrency guard finds running = true is rejected
\* (synchronous entry) or dropped (asynchronous and update entries), and
\* neither that step nor any later step of the refused request changes
\* runningArgs, lastCallOutput, lastCallSucceeded, lastCallArgs or
\* lastUpdateTimestamp.
C2_RefusedCallLeavesRecord ==
    [][\A c \in Calls :
         /\ (Steps(c) /\ state.RunningUpdate
                /\ pc[c] \in {"guard", "asyncGuard", "updateGuard"})
              => /\ \/ pc'[c] = "done"
                    \/ pc'[c] = "ret" /\ ret'[c] = "busy"
                 /\ CallFields(state') = CallFields(state)
         /\ (Steps(c) /\ ret[c] = "busy")
              => /\ CallFields(state') = CallFields(state)
                 /\ pc'[c] \notin {"start", "exec"}]_vars

\* a call has been refused while the salt-call of another is in flight
C2_Witness ==
    \E c, d \in Calls : ret[c] = "busy" /\ pc[d] = "exec" /\ state.RunningUpdate

\* C3: a synchronous ping refused because another call is in flight gets an
\* error reply ("call already in progress"), not a success reply carrying an
\* empty or null snapshot; a refused fire-and-forget ping gets its usual
\* reply without an error.
C3_RefusedSyncPingGetsError ==
    \A c \in Calls :
       pc[c] = "done" =>
          /\ (kind[c] = "RunPingSync" /\ ret[c] = "busy") => reply[c] = "error"
          /\ kind[c] = "RunPing" => reply[c] = "ok"

\* C4: from the acceptance of a call until its record mutations and the
\* write of the state file are complete, running is true.
C4_RunningUntilPersisted ==
    \A c \in Calls :
       pc[c] \in {"exec", "record", "updateTime", "nodegroup", "persist"}
          => state.RunningUpdate

\* C5: running becomes true only in the step that accepts a call, and while
\* the salt-call of an accepted call has not returned, running stays true.
C5_RunningWhileToolRuns ==
    [][/\ (~state.RunningUpdate /\ state'.RunningUpdate)
           => \E c \in Calls : pc[c] = "start" /\ pc'[c] = "exec"
       /\ \A c \in Calls : pc'[c] = "exec" => state'.RunningUpdate]_vars

\* C6: lastUpdateTimestamp changes only at the completion of an update call
\* whose own salt-call succeeded and that was given a non-zero time: no
\* ping, no failed update and no refused call changes it.
C6_LastUpdateOnlyBySuccessfulUpdate ==
    [][state'.LastUpdate # state.LastUpdate
         => \E c \in Calls :
               /\ pc[c] = "updateTime" /\ pc'[c] = "nodegroup"
               /\ UpdateCallOf(kind[c])
               /\ out[c].ok
               /\ updateTime[c] # ZeroTime
               /\ state'.LastUpdate = updateTime[c]]_vars

C10_GatedUpdateRecordsPublishedTime ==
    [][\A c \in Calls :
         (pc[c] = "updateTime" /\ Steps(c) /\ kind[c] = "RunUpdate"
            /\ chk[c] = "newer" /\ out[c].ok)
           => /\ state'.LastUpdate = updateTime[c]
              /\ updateTime[c] \in 1..MaxPublished
              /\ state'.LastUpdate # Now]_vars

\* whether the captured output o can be made into an event
Parses(o) == ~ParseLines(ZeroCounts, o).err

\* C11: an update call whose own captured output parses hands exactly one
\* event to the event service, and does so in the step after the write of
\* the state file; a ping hands over none; an update call whose captured
\* output does not parse returns the parse error and hands over none.
C11_OneEventPerParsedUpdate ==
    [][/\ \A c \in Calls :
            (pc[c] = "event" /\ Steps(c))
              => /\ (UpdateCallOf(kind[c]) /\ Parses(out[c].out))
                      => emitted'[c] = 1 /\ ret'[c] # "parse"
                 /\ (UpdateCallOf(kind[c]) /\ ~Parses(out[c].out))
                      => emitted'[c] = 0 /\ ret'[c] = "parse"
                 /\ ~UpdateCallOf(kind[c])
                      => emitted'[c] = 0 /\ ret'[c] = "nil"
       /\ \A c \in Calls :
            emitted'[c] > emitted[c] => pc[c] = "event" /\ emitted[c] = 0]_vars

\* C12: a failed salt-call is recorded as LastCallSuccess = false with the
\* captured output in LastCallOut, a failed read of the node group file as
\* LastCallNodegroup = "error reading nodegroup"; the call goes on in both
\* cases, and an error it returns in the end comes from the parsing of the
\* output or from the event service, not from these failures.
C12_FailuresRecordedAsData ==
    [][\A c \in Calls :
         Steps(c) =>
           /\ (pc[c] = "record" /\ ~out[c].ok)
                => /\ ~state'.LastCallSuccess
                   /\ state'.LastCallOut = out[c].out
                   /\ pc'[c] = "updateTime" /\ ret'[c] = "none"
           /\ (pc[c] = "nodegroup" /\ faults' # faults)
                => /\ state'.LastCallNodegroup = "error reading nodegroup"
                   /\ pc'[c] = "persist" /\ ret'[c] = "none"
           /\ (pc[c] = "event" /\ ret'[c] # "nil")
                => /\ UpdateCallOf(kind[c])
                   /\ ~Parses(state.LastCallOut) \/ faults' # faults]_vars

\* a call whose salt-call failed is about to return without an error
C12_Witness ==
    \E c \in Calls :
       /\ pc[c] = "ret" /\ ret[c] = "nil"
       /\ ~state.LastCallSuccess /\ state.LastCallArgs = ArgsOf(kind[c])
       /\ faults = 1 /\ Parses(state.LastCallOut)
       /\ state.LastCallNodegroup # "error reading nodegroup"

\* C13: runSaltCallSync returns an error only when the guard refused the
\* call or when the output could not be parsed into an event; a failure of
\* salt-call, of the write of the state file, of the read of the node group
\* or of the hand-over to the event service leaves the result without error.
C13_ErrorOnlyFromGuardOrParse ==
    [][\A c \in Calls :
         (Steps(c) /\ ret'[c] \notin {"none", "nil"} /\ ret[c] = "none")
           => \/ pc[c] = "guard" /\ state.RunningUpdate
              \/ pc[c] = "event" /\ ~Parses(state.LastCallOut)]_vars

\* C14: when an accepted call completes, the full record is written to the
\* state file; when that write fails the call completes all the same:
\* running is false, the record in memory carries the values of this call,
\* and an update call goes on to build and hand over its event.
C14_PersistFailureNotFatal ==
    [][\A c \in Calls :
         Steps(c) =>
           /\ pc[c] = "persist"
                => /\ pc'[c] = "event" /\ ret'[c] = "none"
                   /\ state' = state
                   /\ faults' = faults => file' = FileOf(state)
                   /\ faults' # faults
                        => /\ file' = file
                           /\ ~state'.RunningUpdate
                           /\ state'.LastCallArgs = ArgsOf(kind[c])
           /\ (pc[c] = "event" /\ UpdateCallOf(kind[c]) /\ Parses(state.LastCallOut))
                => emitted'[c] = 1]_vars

\* C15: a tracker that cannot open the log never blocks its update call:
\* an update call that has run salt-call, recorded the result and reached
\* its deferred send to the tracker can complete the send, or its tracker
\* can still take a step towards the receive, so the call returns.
C15_UpdateNotBlockedByTracker ==
    \A c \in Calls :
       (pc[c] = "stop" /\ ret[c] = "nil") =>
          ENABLED (\/ runUpdate_Stop(c)
                   \/ trackUpdateProgress_Init(c)
                   \/ trackUpdateProgress_Open(c))

\* C16: when an update operation has returned, its tracker has fully
\* stopped: it has written its count to salt-states-count, has closed the
\* log and has returned.
C16_TrackerStoppedAtReturn ==
    \A c \in Calls : pc[c] \in {"done", "idle"} => trk[c] = "none"

\* the marker lines appended to the log since the tracker of slot c opened
\* it: those it has counted and those it has not read yet
Appended(c) == stateCount[c] + unread[c]

\* C17: when the tracker of an update call that ran salt-call is stopped,
\* its count is the number of marker lines appended to the log during the
\* call, and that number is what it writes to salt-states-count.
C17_TrackerCountsEveryLine ==
    [][\A c \in Calls :
         ret[c] = "nil" =>
           /\ (trk[c] = "loop" /\ trk'[c] = "final")
                => stateCount[c] = Appended(c)
           /\ (trk[c] = "final" /\ trk'[c] = "none" /\ faults' = faults)
                => statesFile' = Appended(c)]_vars

\* C18: in every reachable state UpdateProgressPercentage is between 0 and
\* 100, whatever the number of marker lines read and whatever count an
\* earlier run left in salt-states-count.
C18_PercentWithinRange ==
    state.UpdateProgressPercentage \in 0..100

\* the lines of o that start with prefix p
Matching(o, p) == {i \in 1..Len(o) : o[i].prefix = p}

\* the k-th number of the last line of o that starts with p, 0 without one
LastOf(o, p, k) ==
    IF Matching(o, p) = {} THEN 0
    ELSE o[CHOOSE i \in Matching(o, p) : \A j \in Matching(o, p) : j <= i].nums[k]

\* every summary line of o has the number of numeric tokens expected of it
WellFormed(o) ==
    \A i \in 1..Len(o) :
       /\ o[i].prefix = "Succeeded:" => Len(o[i].nums) = 2
       /\ o[i].prefix \in {"Failed:", "Total run time:"} => Len(o[i].nums) = 1

\* C19: the event built from a record whose output parses carries the
\* changed, failed and succeeded counts of the output, the node group, the
\* success flag and the arguments of the record, and it carries out (the
\* whole output) and runTime exactly when failed > 0 or the call did not
\* succeed.
C19_EventCarriesParsedFields ==
    LET o == state.LastCallOut
        e == makeEventFromState(state, Now)
        more == LastOf(o, "Failed:", 1) > 0 \/ ~state.LastCallSuccess
    IN  WellFormed(o) =>
          /\ ~e.err
          /\ e.Type = "salt-update"
          /\ e.Details.succeeded = LastOf(o, "Succeeded:", 1)
          /\ e.Details.changed = LastOf(o, "Succeeded:", 2)
          /\ e.Details.failed = LastOf(o, "Failed:", 1)
          /\ e.Details.nodegroup = state.LastCallNodegroup
          /\ e.Details.success = state.LastCallSuccess
          /\ e.Details.args = state.LastCallArgs
          /\ "out" \in DOMAIN e.Details <=> more
          /\ "runTime" \in DOMAIN e.Details <=> more
          /\ more => /\ e.Details.out = o
                     /\ e.Details.runTime = LastOf(o, "Total run time:", 1)

\* the event of a successful call with a failed state has been handed
\* over, and so has the short event of a call without one
C19_Witness ==
    \E c \in Calls :
       /\ pc[c] = "ret" /\ emitted[c] = 1
       /\ state.LastCallSuccess
       /\ LastOf(state.LastCallOut, "Failed:", 1) > 0
       /\ LastOf(state.LastCallOut, "Succeeded:", 2) > 0
       /\ LastOf(state.LastCallOut, "Total run time:", 1) > 0

\* C20: when a line starting with "Succeeded:" does not yield exactly 2
\* numeric tokens, or a line starting with "Failed:" or "Total run time:"
\* does not yield exactly 1, the construction fails with the parse error
\* and no event is handed over.
C20_MalformedSummaryFails ==
    [][\A c \in Calls :
         (pc[c] = "event" /\ Steps(c) /\ ~WellFormed(state.LastCallOut))
           => /\ makeEventFromState(state, Now).err
              /\ ret'[c] = "parse"
              /\ emitted'[c] = 0]_vars

\* a call has returned the parse error for an output whose "Succeeded:"
\* line has one number
C20_Witness ==
    \E c \in Calls :
       /\ pc[c] = "ret" /\ ret[c] = "parse" /\ emitted[c] = 0
       /\ \E i \in Matching(state.LastCallOut, "Succeeded:") :
             Len(state.LastCallOut[i].nums) = 1

SummaryPrefixes == {"Succeeded:", "Failed:", "Total run time:"}

\* the lines of o that start with p, in their order
LinesOf(o, p) == SelectSeq(o, LAMBDA l : l.prefix = p)

\* how often line l occurs in o
Occurrences(o, l) == Cardinality({i \in 1..Len(o) : o[i] = l})

\* the fields makeEventFromState parses out of the record's output when
\* that output is o
ParsedFields(o) ==
    LET e == makeEventFromState([state EXCEPT !.LastCallOut = o], Now)
    IN  IF e.err THEN << "error" >>
        ELSE << e.Details.succeeded, e.Details.changed, e.Details.failed,
                IF "runTime" \in DOMAIN e.Details THEN e.Details.runTime ELSE 0 >>

\* the record's output is about to be parsed
AtEvent == \E c \in Calls : pc[c] = "event"

\* C21 (as stated): without a summary line the construction does not fail
\* and the field is zero, and the parsed fields are the same for every
\* output made of the same summary lines in any order with any unrelated
\* lines between them.
C21_AbsentZeroAnyOrder ==
    LET o == state.LastCallOut
        e == makeEventFromState(state, Now)
    IN  AtEvent =>
          /\ (WellFormed(o) /\ Matching(o, "Succeeded:") = {})
                => ~e.err /\ e.Details.succeeded = 0 /\ e.Details.changed = 0
          /\ (WellFormed(o) /\ Matching(o, "Failed:") = {})
                => ~e.err /\ e.Details.failed = 0
          /\ \A o2 \in Outputs :
                (\A l \in EventLines :
                    l.prefix \in SummaryPrefixes => Occurrences(o2, l) = Occurrences(o, l))
                  => ParsedFields(o2) = ParsedFields(o)

\* C21 (amended): as above, for every output in which the lines of each
\* kind are the same and in the same order among themselves, however the
\* kinds are ordered relative to each other and whatever unrelated lines
\* lie between them.
C21_AbsentZeroAnyOrderOfKinds ==
    LET o == state.LastCallOut
        e == makeEventFromState(state, Now)
    IN  AtEvent =>
          /\ (WellFormed(o) /\ Matching(o, "Succeeded:") = {})
                => ~e.err /\ e.Details.succeeded = 0 /\ e.Details.changed = 0
          /\ (WellFormed(o) /\ Matching(o, "Failed:") = {})
                => ~e.err /\ e.Details.failed = 0
          /\ (WellFormed(o) /\ Matching(o, "Total run time:") = {} /\ ~state.LastCallSuccess)
                => ~e.err /\ e.Details.runTime = 0
          /\ \A o2 \in Outputs :
                (\A p \in SummaryPrefixes : LinesOf(o2, p) = LinesOf(o, p))
                  => ParsedFields(o2) = ParsedFields(o)

\* the event of a failed call whose output has no "Succeeded:" line, an
\* unrelated line first and the run time before the failed count has been
\* handed over
C21_Witness ==
    \E c \in Calls :
       /\ pc[c] = "ret" /\ emitted[c] = 1
       /\ ~state.LastCallSuccess
       /\ Matching(state.LastCallOut, "Succeeded:") = {}
       /\ Len(state.LastCallOut) = 3
       /\ state.LastCallOut[1].prefix = "Name:"
       /\ state.LastCallOut[2].prefix = "Total run time:"
       /\ state.LastCallOut[3].prefix = "Failed:"

\* the node group the client passed is in the node-group-to-branch map
KnownNodeGroup(ng) == \E k \in DOMAIN nodeGroupToBranch : ng \in {<< k >>, << k, "\n" >>}

\* the branch of a known node group
BranchOf(ng) == nodeGroupToBranch[ng[1]]

\* the response carries a manifest with a published time for every branch
WellFormedManifest(resp) ==
    \E f \in [Branches -> 0..MaxPublished] : resp = Response(FALSE, 200, TRUE, ManifestOf(f))

\* the lastUpdateTimestamp recorded on the device
Recorded == IF file.kind = "json" THEN file.doc.LastUpdate ELSE ZeroTime

\* C22: for a known node group and a well-formed manifest the check
\* succeeds, returns the published time of the mapped branch, and reports
\* available exactly when that time is strictly after the recorded
\* lastUpdateTimestamp.
C22_AvailableIffStrictlyAfter ==
    (/\ client.op = "UpdateExistsForNodeGroup"
     /\ KnownNodeGroup(client.nodeGroup)
     /\ WellFormedManifest(client.resp))
      => LET t == client.resp.body.doc[BranchOf(client.nodeGroup)].tc2.commitDate.time
         IN  /\ client.res.err = "nil"
             /\ client.res.time = t
             /\ client.res.avail <=> t > Recorded

\* a check found the published time equal to the recorded one and said no,
\* for a node group of the test branch whose time differs from the others
C22_Witness ==
    /\ client.op = "UpdateExistsForNodeGroup"
    /\ client.nodeGroup = << "test-pis", "\n" >>
    /\ WellFormedManifest(client.resp)
    /\ client.resp.body.doc["test"].tc2.commitDate.time = 2
    /\ client.resp.body.doc["dev"].tc2.commitDate.time = 1
    /\ client.resp.body.doc["prod"].tc2.commitDate.time = 0
    /\ Recorded = 2
    /\ ~client.res.avail /\ client.res.time = 2

C24_WriteThenReadGivesBack ==
    [][(/\ client.op = "WriteStateFile" /\ ~client.err
        /\ client'.op = "ReadStateFile")
          => /\ ~client'.err
             /\ client'.state = client.saltState]_vars

C26_IsRunningReturnsFlag ==
    (client.op = "IsRunning" /\ client.answered)
      => (client.running <=> state.RunningUpdate)

\* C27: the service requests an update on its own, at start or from its
\* periodic loop, only while the auto-update toggle is enabled.
C27_UnattendedOnlyWhenEnabled ==
    [][\A c \in Calls : (pc[c] = "idle" /\ pc'[c] = "gate") => autoUpdate]_vars

\* C28: the listener takes every pending signal off the channel before it
\* waits, so the signals that arrived before it waits again set off at
\* most one ping request; each wake-up makes exactly one ping request,
\* which is dropped when a call is in flight.
C28_BurstGivesOnePing ==
    [][/\ (modem.pc = "drain" /\ modem'.pc = "wait")
            => modem.pending = 0 /\ modem'.pending = 0
       /\ modem'.pings <= 1
       /\ (\E c \in Calls : pc[c] = "idle" /\ pc'[c] = "asyncGuard")
            <=> (modem.pc = "ping" /\ modem'.pc = "call")
       /\ (modem.pc = "ping" /\ modem'.pc # "ping")
            => /\ modem'.pings = 1
               /\ Cardinality({c \in Calls : pc[c] = "idle" /\ pc'[c] = "asyncGuard"}) = 1
       /\ \A c \in Calls :
            (pc[c] = "asyncGuard" /\ Steps(c) /\ state.RunningUpdate)
              => pc'[c] = "done" /\ state' = state /\ file' = file]_vars

\* four signals arrived and two of them woke the listener, the others
\* were taken off the channel; the second ping request was dropped
\* because the first ping was still running salt-call
C28_Witness ==
    /\ modem.pc = "wait"
    /\ modem.arrived = 4
    /\ modem.pending = 0
    /\ modem.pings = 1
    /\ requests = 2
    /\ \E c, d \in Calls :
          /\ pc[c] = "done" /\ kind[c] = "Modem" /\ ret[c] = "none"
          /\ pc[d] = "exec" /\ kind[d] = "Modem"

\* C29: in every reachable state runningArgs is non-empty exactly while
\* running is true, and is then the argument list of the call in flight;
\* without a call in flight it is empty; and when an accepted call returns,
\* lastCallArgs is the argument list of that call.
C29_RunningArgsOfCallInFlight ==
    /\ state.RunningArgs # NilArgs <=> state.RunningUpdate
    /\ \A c \in InFlight : state.RunningArgs = ArgsOf(kind[c])
    /\ InFlight = {} => state.RunningArgs = NilArgs
    /\ \A c \in Calls :
         (pc[c] = "ret" /\ ret[c] # "busy") => state.LastCallArgs = ArgsOf(kind[c])

\* the slots whose tracker goroutine exists
Trackers == {c \in Calls : trk[c] # "none"}

\* C30: at most one tracker exists at any moment, and a tracker exists
\* only while the update call it belongs to has been accepted and has not
\* finished.
C30_AtMostOneTracker ==
    /\ Cardinality(Trackers) <= 1
    /\ \A c \in Trackers :
          /\ UpdateCallOf(kind[c])
          /\ pc[c] \in {"guard", "start", "exec", "record", "updateTime", "nodegroup",
                        "persist", "event", "ret", "stop"}
          /\ pc[c] \in {"ret", "stop"} => ret[c] # "busy"

\* C40: CheckIfUpdateAvailable returns true exactly when the remote check
\* succeeds and reports a published time strictly after the recorded
\* lastUpdateTimestamp, and false when the check succeeds and reports no
\* newer version.
C40_CheckIfUpdateAvailableIsCheckResult ==
    client.op = "CheckIfUpdateAvailable"
      => (client.available <=> (client.res.err = "nil" /\ client.res.time > Recorded))

\* C34: when an update whose call returned without error has handed the stop
\* signal to its tracker, the progress is 100 / "Finished update": no write
\* of the tracker has replaced what the update set on its way out.
C34_FinishedProgressKept ==
    [][\A c \in Calls :
         (pc[c] = "stop" /\ pc'[c] = "done" /\ ret[c] = "nil")
           => /\ state'.UpdateProgressPercentage = 100
              /\ state'.UpdateProgressStr = "Finished update"]_vars


\* C35: an update request that is refused because another call is running
\* changes nothing of the progress or of salt-states-count: no step of the
\* tracker that belongs to the refused request writes the progress fields
\* or the file.
C35_RefusedUpdateLeavesProgress ==
    [][\A c \in Calls :
         (UpdateCallOf(kind[c]) /\ ret[c] = "busy" /\ trk'[c] # trk[c])
           => /\ state'.UpdateProgressPercentage = state.UpdateProgressPercentage
              /\ state'.UpdateProgressStr = state.UpdateProgressStr
              /\ statesFile' = statesFile]_vars


\* C36: the record in the state file always has running false and no
\* running arguments, so the record that a restarted service reads from it
\* is idle.
C36_PersistedRecordIdle ==
    LET st == ReadStateFile(file, TRUE).state
    IN  /\ file.kind = "json"
            => ~file.doc.RunningUpdate /\ file.doc.RunningArgs.json = "null"
        /\ ~st.RunningUpdate
        /\ st.RunningArgs = NilArgs


\* C38: over any sequence of pings, conditional updates and forced updates,
\* lastUpdateTimestamp never moves backwards.
C38_LastUpdateMonotonic ==
    [][state'.LastUpdate >= state.LastUpdate]_vars


\* C37: a conditional update whose salt-call succeeded leaves in the state
\* file the published time its check returned, so that a check against the
\* same manifest finds nothing newer; and whenever no request is under way
\* the lastUpdateTimestamp of the state file is the one of the record in
\* memory.
C37_WatermarkPersisted ==
    [][/\ \A c \in Calls :
            (pc[c] = "persist" /\ Steps(c) /\ kind[c] = "RunUpdate"
               /\ chk[c] = "newer" /\ out[c].ok)
              => ~After(updateTime[c], IF file'.kind = "json"
                                       THEN file'.doc.LastUpdate ELSE ZeroTime)
       /\ (\A c \in Calls : pc'[c] \in {"idle", "done"})
            => (file'.kind = "json" /\ file'.doc.LastUpdate = state'.LastUpdate)]_vars


\* C32: a tracker takes as total the number in salt-states-count plus 5, or
\* 105 when the file is absent or holds no number; after each matching line
\* the percentage is 100 * count \div total and the label is the name of
\* the state; and a run stopped with count N makes the total of the next
\* run N + 5: the stopped tracker leaves N in the file, and a tracker that
\* starts once a run was stopped with N finds it there.
C32_TotalAndPercentage ==
    [][\A c \in Calls :
         /\ (trk[c] = "open" /\ trk'[c] = "loop")
              => /\ totalStates'[c] = IF statesFile < 0 THEN 105 ELSE statesFile + 5
                 /\ \A d \in Calls :
                       trk[d] = "final" => totalStates'[c] = stateCount[d] + 5
         /\ stateCount'[c] = stateCount[c] + 1
              => /\ state'.UpdateProgressPercentage
                       = (100 * stateCount'[c]) \div totalStates[c]
                 /\ state'.UpdateProgressStr = "pkg-install"
         /\ (trk[c] = "final" /\ trk'[c] = "none")
              => TotalStates(statesFile') = stateCount[c] + 5]_vars


\* the number of matches of stateRe in a text
MarkersIn(text) == Cardinality(Matches(text))

\* what was written to the log after the tracker opened it
AppendedText == SubSeq(minionLog, reader.opened + 1, Len(minionLog))

\* C31: the tracker counts only marker lines appended to the log after it
\* started: it never reads what the log held before, its count is at most
\* the number of markers appended since, the count goes up one at a time
\* and only by a line that matches, whose state name becomes the label,
\* and a line that does not match changes neither count nor progress.
C31_CountsOnlyAppendedMarkers ==
    /\ [](/\ reader.pos >= reader.opened
          /\ \A c \in Calls : trk[c] = "loop" => stateCount[c] <= MarkersIn(AppendedText))
    /\ [][\A c \in Calls :
            trk[c] = "loop" =>
              LET r == ReadString(minionLog, reader.pos)
              IN  /\ stateCount'[c] # stateCount[c]
                       => /\ reader'.pos = r.pos /\ ~r.err /\ MatchString(r.line)
                          /\ stateCount'[c] = stateCount[c] + 1
                          /\ state'.UpdateProgressStr = FindStringSubmatch(r.line)
                  /\ (reader' # reader /\ ~MatchString(r.line))
                       => /\ stateCount'[c] = stateCount[c]
                          /\ state'.UpdateProgressStr = state.UpdateProgressStr
                          /\ state'.UpdateProgressPercentage
                                = state.UpdateProgressPercentage]_vars

\* the log held a marker line when the tracker opened it; since then a line
\* that does not match and a marker line were appended, and the tracker has
\* read both and counted one
C31_Witness ==
    /\ trk[1] = "loop" /\ stateCount[1] = 1
    /\ reader.opened = 3 /\ MarkersIn(SubSeq(minionLog, 1, 3)) = 1
    /\ reader.pos = Len(minionLog) /\ MarkersIn(AppendedText) = 1
    /\ minionLog[4] = "x" /\ minionLog[5] = "\n"
    /\ state.UpdateProgressStr = "svc-restart"

\* the first pieces of the lines of log
LineStarts(log) == {i \in 1..Len(log) : i = 1 \/ log[i - 1] = "\n"}

\* the place of the "\n" that ends the line starting at i, 0 without one
LineEnd(log, i) ==
    LET ends == {j \in i..Len(log) : log[j] = "\n"}
    IN  IF ends = {} THEN 0 ELSE CHOOSE j \in ends : \A k \in ends : j <= k

\* the complete marker lines of log that start after from and end by to
MarkerLines(log, from, to) ==
    Cardinality({i \in LineStarts(log) :
                   /\ i > from
                   /\ LineEnd(log, i) \in 1..to
                   /\ MatchString(SubSeq(log, i, LineEnd(log, i)))})

\* C39: every complete marker line appended after the tracker started is
\* counted exactly once, however the appends fall between the reads: the
\* count is at least the number of complete marker lines the reader has
\* gone through, and at most the number of markers in what it has read.
C39_EveryMarkerLineCountedOnce ==
    \A c \in Calls :
       trk[c] = "loop" =>
          /\ MarkerLines(minionLog, reader.opened, reader.pos) <= stateCount[c]
          /\ stateCount[c] <= MarkersIn(SubSeq(minionLog, reader.opened + 1, reader.pos))

\* C33: a tracker that has opened the log leaves its loop only by receiving
\* the stop signal from runUpdate, never because ReadString found the end
\* of the log; and once runUpdate is at its send, the tracker receives,
\* writes the count and returns, and runUpdate is past the send.
C33_TrackerStopsOnlyOnSignal ==
    /\ [][\A c \in Calls :
            (trk[c] = "loop" /\ trk'[c] # "loop")
              => trk'[c] = "final" /\ pc[c] = "stop" /\ pc'[c] = "done"]_vars
    /\ \A c \in Calls :
          (pc[c] = "stop" /\ trk[c] = "loop") ~> (pc[c] = "done" /\ trk[c] = "none")

\* the tracker found the end of the log in the middle of a line, went on,
\* and returned after runUpdate had handed it the stop signal
C33_Witness ==
    /\ pc[1] = "done" /\ trk[1] = "none"
    /\ reader.pos = Len(minionLog) /\ reader.pos > reader.opened
    /\ LastPiece(minionLog) # "\n"
    /\ statesFile = 1

====
